---- MODULE Spec2Model ----
(***************************************************************************)
(* Model of the metasearch service of llama-searchai:                      *)
(*   services/search.py   SearchService (search, analyze_query,            *)
(*                        _search_provider, _combine_results)              *)
(*   api/routes/search.py the HTTP handlers in front of the service        *)
(*   models/search.py     Query, SearchResult, BiasAnalysis,               *)
(*                        SearchMetadata, SearchResponse                   *)
(*                                                                         *)
(* Three specifications share the variables:                               *)
(*   Spec / FairSpec  one search request through route and service, with   *)
(*                    the provider tasks completing in any order           *)
(*   CombineSpec      _combine_results applied to arbitrary inputs         *)
(*   AnalyzeSpec      repeated analyze_query calls                         *)
(***************************************************************************)
EXTENDS Integers, Sequences, FiniteSets, TLC

\* ---------------------------------------------------------------- bounds
\* largest num_results a request asks for (besides MockLimit + 1)
MaxNum == 3
\* longest provider filter of a request
MaxFilterLen == 2
\* longest per-provider list handed to _combine_results in CombineSpec
MaxListLen == 3
\* longest query text handed to analyze_query
MaxTextLen == 2
\* number of analyze_query calls in AnalyzeSpec
MaxAnalyses == 2
\* number of requests to protected endpoints in AuthSpec
MaxApiRequests == 3
\* longest content list handed to personalize_content
MaxContentLen == 2
\* number of backup jobs created in BackupSpec
MaxBackups == 2
\* number of notifications sent in NotifSpec
MaxNotifications == 2
\* number of records in one upsert request, and of upsert calls in VectorSpec
MaxVectors == 2

MaxUpserts == 2

\* ------------------------------------------------------ program constants
\* range(min(num_results, 10)) in _search_google and _search_bing
MockLimit == 10
\* the dimension of a collection made for a request without a first vector
DefaultDimension == 384
\* the vector_count of the mock collection vector_search makes
MockVectorCount == 1000

\* provider names _search_provider knows; the order is the insertion order
\* of self._providers in __init__
ProviderNames == {"google", "bing"}
\* names a request may put in its providers list (one is never configured)
RequestNames == ProviderNames \cup {"duckduckgo"}

None == "None"
NoRequest == [kind |-> "none"]
NoResponse == [kind |-> "none"]
NoQuery == [kind |-> "none"]

\* ---------------------------------------------------------------- helpers
SeqsUpTo(S, n) == UNION {[1..k -> S] : k \in 0..n}

Range(s) == {s[i] : i \in 1..Len(s)}

Min(a, b) == IF a < b THEN a ELSE b

Max(a, b) == IF a > b THEN a ELSE b

\* the keys of a dict filled by inserting the elements of s in order:
\* a key keeps the position of its first insertion
RECURSIVE DictKeys(_)
DictKeys(s) ==
    IF s = <<>> THEN <<>>
    ELSE LET front == DictKeys(SubSeq(s, 1, Len(s) - 1))
             last == s[Len(s)]
         IN IF last \in Range(front) THEN front ELSE Append(front, last)

\* str.lower() on one character and on a text (a sequence of characters)
Chars == {"a", "A", "b", "B"}

LowerChar(c) == CASE c = "A" -> "a" [] c = "B" -> "b" [] OTHER -> c

Lower(t) == [i \in 1..Len(t) |-> LowerChar(t[i])]

Texts == SeqsUpTo(Chars, MaxTextLen)

\* ------------------------------------------------------------- data model
\* Query(text=...) with the defaults of the model class
DefaultQuery(text) ==
    [text |-> text, intent |-> "undefined", locality |-> "undefined",
     language |-> "en", query_id |-> None, processed_text |-> None]

\* the mock result list of one provider: range(min(num_results, 10))
MockResults(provider, num_results) ==
    [i \in 1..Min(num_results, MockLimit) |->
        [provider |-> provider, rank |-> i, url |-> <<provider, i>>]]

\* self._providers after __init__, as the list of its keys
InitProviders(s) ==
    (IF s.GOOGLE_API_KEY /\ s.GOOGLE_CX THEN <<"google">> ELSE <<>>)
    \o (IF s.BING_API_KEY THEN <<"bing">> ELSE <<>>)

\* self._providers[p]["enabled"]: set to True in __init__, never changed
ProviderEnabled(p) == TRUE

\* ------------------------------------------------------ _combine_results
\* provider_list.pop(0): the result taken and the list left behind
\* (pop() would take the last result instead)
PopLast(provider_list) ==
    [result |-> provider_list[Len(provider_list)],
     rest |-> SubSeq(provider_list, 1, Len(provider_list) - 1)]

PopFirst(provider_list) ==
    [result |-> Head(provider_list), rest |-> Tail(provider_list)]

\* the break of the for loop: len(all_results) >= num_results (without it
\* a round always runs through all providers)
NeverBreak(all_results, num_results) == FALSE

ReachedCount(all_results, num_results) == Len(all_results) >= num_results

\* the for loop over the providers, from the i-th key on; lists is the
\* provider_results dict, whose lists the loop pops from
RECURSIVE CombineRound(_, _, _, _, _, _)
CombineRound(keys, i, lists, all_results, num_results, added_any) ==
    IF i > Len(keys)
    THEN [lists |-> lists, all_results |-> all_results, added_any |-> added_any]
    ELSE IF lists[keys[i]] = <<>>
    THEN CombineRound(keys, i + 1, lists, all_results, num_results, added_any)
    ELSE LET popped == PopFirst(lists[keys[i]])
             lists2 == [lists EXCEPT ![keys[i]] = popped.rest]
             all2 == Append(all_results, popped.result)
         IN IF ReachedCount(all2, num_results)
            THEN [lists |-> lists2, all_results |-> all2, added_any |-> TRUE]
            ELSE CombineRound(keys, i + 1, lists2, all2, num_results, TRUE)

\* the while loop; rounds counts its iterations
RECURSIVE CombineLoop(_, _, _, _, _)
CombineLoop(keys, lists, all_results, num_results, rounds) ==
    IF ~(Len(all_results) < num_results)
    THEN [lists |-> lists, all_results |-> all_results, rounds |-> rounds]
    ELSE LET r == CombineRound(keys, 1, lists, all_results, num_results, FALSE)
         IN IF ~r.added_any
            THEN [lists |-> r.lists, all_results |-> r.all_results,
                  rounds |-> rounds + 1]
            ELSE CombineLoop(keys, r.lists, r.all_results, num_results,
                             rounds + 1)

\* _combine_results(provider_results, num_results): the list returned, the
\* provider_results dict as the pops leave it, and the number of rounds
combine_results(keys, lists, num_results) ==
    CombineLoop(keys, lists, <<>>, num_results, 0)

\* ------------------------------------------------------------------ state
VARIABLES
    settings,               \* GOOGLE_API_KEY, GOOGLE_CX, BING_API_KEY: set or not
    providers,              \* keys of self._providers, in insertion order
    pc,                     \* position of the operation in progress
    request,                \* the SearchRequest being served
    via_route,              \* TRUE when the request came through the HTTP route
    query,                  \* local query of search
    enabled_providers,      \* local enabled_providers of search
    provider_tasks,         \* keys of the provider_tasks dict, in order
    task_state,             \* per provider: none, running, hung, ok, raised
    task_result,            \* per provider: the list its task returned
    tasks_started,          \* number of asyncio.create_task calls made
    await_idx,              \* index of the task the loop at line 121 awaits
    provider_results_keys,  \* keys of the provider_results dict, in order
    provider_results,       \* values of the provider_results dict
    gathered,               \* provider_results as handed to _combine_results
    error_log,              \* providers logged by logger.error at line 125
    results,                \* local results of search / value of _combine_results
    result_counts,          \* local result_counts of search
    rounds,                 \* iterations the while loop of _combine_results made
    error,                  \* exception search raised, or None
    http_status,            \* status the route answered with, 0 before that
    response,               \* the SearchResponse returned, or NoResponse
    analyses,               \* Query objects analyze_query has returned, in order
    uuid_counter            \* number of uuid4() values drawn

EmptyLists == [p \in ProviderNames |-> <<>>]

NoTasks == [p \in ProviderNames |-> "none"]

\* state of the services next to search
VARIABLES
    api_log,                \* requests to protected endpoints, as answered
    personalization_enabled,\* settings.PERSONALIZATION_ENABLED
    user_profiles,          \* PersonalizationService._user_profiles
    pers_call,              \* the last personalization call and its outcome
    calls,                  \* the locals of each of the concurrent searches
    backup_settings,        \* the settings attributes the backup code reads
    backup_objects,         \* the BackupJob object made for each job id
    backup_jobs,            \* keys of BackupService._backup_jobs
    backup_tasks,           \* the background task of each backup job
    files,                  \* backup files on disk
    restore_objects,        \* the RestoreJob object made for each job id
    restore_jobs,           \* keys of BackupService._restore_jobs
    restore_tasks,          \* the background task of each restore job
    backup_call,            \* the last backup request and its outcome
    deleted,                \* backup ids for which delete_backup returned True
    sched_objects,          \* the Job object made for each job id
    sched_jobs,             \* keys of SchedulerService._jobs
    trigger_pc,             \* where the trigger_job call on each job stands
    scheduler_loop,         \* the _run_scheduler task and the job it runs
    sched_call,             \* the last scheduler call and its outcome
    sched_deleted,          \* job ids for which delete_job returned True
    notif_settings,         \* which attributes the settings object declares
    sent_notifications,     \* NotificationService._sent_notifications
    notif_call,             \* the last send_notification call, its outcome
    collections,            \* VectorService._collections
    upserts_done,           \* number of upsert_vectors calls made
    vec_call                \* the last vector call and its outcome

authVars == <<api_log>>

persVars == <<personalization_enabled, user_profiles, pers_call>>

concVars == <<calls>>

backupVars == <<backup_settings, backup_objects, backup_jobs, backup_tasks,
                files, restore_objects, restore_jobs, restore_tasks,
                backup_call, deleted>>

schedVars == <<sched_objects, sched_jobs, trigger_pc, scheduler_loop,
               sched_call, sched_deleted>>

notifVars == <<notif_settings, sent_notifications, notif_call>>

vectorVars == <<collections, upserts_done, vec_call>>

platformVars == <<authVars, persVars, concVars, backupVars, schedVars,
                  notifVars, vectorVars>>

\* the services next to search right after construction
\* the searches in flight at the same time in ConcSpec
CallIds == {1, 2}

NoCall ==
    [pc |-> "idle", request |-> NoRequest, enabled_providers |-> <<>>,
     provider_tasks |-> <<>>, task_state |-> NoTasks,
     task_result |-> EmptyLists, await_idx |-> 0,
     provider_results_keys |-> <<>>, provider_results |-> EmptyLists,
     gathered |-> EmptyLists, results |-> <<>>, error |-> None]

\* job ids, in the order uuid4 hands them out
BackupIds == 1..MaxBackups

\* one restore job is followed
RestoreIds == {1}

\* backup_<time>_<type>.tar.gz: two jobs of one type made in the same second
\* get the same name
BackupPaths == {"backup_t1_full.tar.gz", "backup_t2_full.tar.gz"}

NoPath == ""

\* an object not made yet; file_path and error_message None are "";
\* started_at and completed_at are kept as set or None
NoBackupJob == [status |-> "NONE", file_path |-> NoPath, error_message |-> "",
                started_at_set |-> FALSE, completed_at_set |-> FALSE]

NoRestoreJob == [status |-> "NONE", source_backup_id |-> 0,
                 error_message |-> "", started_at_set |-> FALSE,
                 completed_at_set |-> FALSE]

NoTask == [pc |-> "none", path |-> NoPath]

NoBackupCall == [op |-> "none", id |-> 0, ok |-> FALSE, status |-> 0,
                 error |-> ""]

NoProfile == [user_id |-> "", topics_of_interest |-> <<>>,
              search_history |-> <<>>]

NoPersCall ==
    [op |-> "none", user_id |-> "", profile |-> NoProfile, content |-> <<>>,
     ok |-> FALSE, status |-> 0, error |-> "", value |-> NoProfile,
     results |-> <<>>, out_content |-> <<>>]

\* scheduler job ids, in the order uuid4 hands them out
SchedIds == {1, 2}

\* a time that is None
NoTime == "None"

\* a field a JobUpdate leaves unset
Unset == "unset"

\* an object not made yet; last_run_time is kept as set or None; a time
\* read from utcnow() is kept as the method that read it, so updated_at is
\* the method that stamped the job last, and next_run_time is None, the
\* schedule's run_once_at, or the method whose utcnow() it was computed
\* from
NoSchedJob == [status |-> "NONE", last_run_set |-> FALSE,
               next_run_time |-> NoTime, schedule |-> "none",
               task_name |-> "", retries_left |-> 0,
               updated_at |-> "never"]

NoSchedCall == [op |-> "none", id |-> 0, found |-> FALSE, ok |-> FALSE,
                error |-> "", listed |-> {},
                update |-> [task_name |-> Unset, schedule |-> Unset]]

\* the scheduler service right after construction: no job, no loop started
SchedAtRest ==
    /\ sched_objects = [i \in SchedIds |-> NoSchedJob]
    /\ sched_jobs = {}
    /\ trigger_pc = [i \in SchedIds |-> "idle"]
    /\ scheduler_loop = [pc |-> "stopped", job |-> 0]
    /\ sched_call = NoSchedCall
    /\ sched_deleted = {}

NoNotifCall == [op |-> "none", channel |-> "", recipient |-> <<>>,
                raised |-> "", status |-> "", error_message |-> ""]

\* the notification service right after construction, with the settings
\* object of config/settings.py
NotifAtRest ==
    /\ notif_settings = "shipped"
    /\ sent_notifications = <<>>
    /\ notif_call = NoNotifCall

NoVecCall == [op |-> "none", n |-> 0, collection |-> "",
              create_collection |-> FALSE, sent |-> 0, ok |-> FALSE,
              error |-> "", inserted_count |-> 0, updated_count |-> 0]

\* the vector service right after construction
VectorAtRest ==
    /\ collections = [c \in {} |-> [dimension |-> 0, vector_count |-> 0]]
    /\ upserts_done = 0
    /\ vec_call = NoVecCall

\* the backup service right after construction
BackupAtRest ==
    /\ backup_settings = "shipped"
    /\ backup_objects = [i \in BackupIds |-> NoBackupJob]
    /\ backup_jobs = {}
    /\ backup_tasks = [i \in BackupIds |-> NoTask]
    /\ files = {}
    /\ restore_objects = [i \in RestoreIds |-> NoRestoreJob]
    /\ restore_jobs = {}
    /\ restore_tasks = [i \in RestoreIds |-> NoTask]
    /\ backup_call = NoBackupCall
    /\ deleted = {}

PlatformInit ==
    /\ api_log = <<>>
    /\ personalization_enabled = TRUE
    /\ user_profiles = [u \in {} |-> NoProfile]
    /\ pers_call = NoPersCall
    /\ calls = [i \in CallIds |-> NoCall]
    /\ BackupAtRest
    /\ SchedAtRest
    /\ NotifAtRest
    /\ VectorAtRest

vars == <<settings, providers, pc, request, via_route, query, enabled_providers,
          provider_tasks, task_state, task_result, tasks_started, await_idx,
          provider_results_keys, provider_results, gathered, error_log,
          results, result_counts, rounds, error, http_status, response,
          analyses, uuid_counter, platformVars>>

searchLocals == <<query, enabled_providers, provider_tasks, task_state,
                  task_result, tasks_started, await_idx, provider_results_keys,
                  provider_results, gathered, error_log, results, result_counts,
                  rounds, response>>

analysisVars == <<analyses, uuid_counter>>

\* ----------------------------------------------------------------- inputs
SettingsChoices ==
    [GOOGLE_API_KEY : BOOLEAN, GOOGLE_CX : BOOLEAN, BING_API_KEY : BOOLEAN]

SearchTexts == {<<"a">>, <<"A", "b">>}

QueryObjects ==
    [text : SearchTexts, intent : {"informational", "undefined"},
     locality : {"local"}, language : {"en"}, query_id : {None, "q1"},
     processed_text : {None}]

NumChoices == (-1..MaxNum) \cup {MockLimit + 1}

\* request.providers: None (providers_none, with providers empty) or a list
FilterChoices ==
    [providers_none : {TRUE}, providers : {<<>>}]
    \cup [providers_none : {FALSE},
          providers : SeqsUpTo(RequestNames, MaxFilterLen)]

\* request.query is a str (is_query FALSE, the text under str) or a Query
\* object (is_query TRUE)
SearchRequests ==
    {[kind |-> "request", is_query |-> FALSE, query |-> [str |-> q],
      num_results |-> n,
      providers_none |-> f.providers_none, providers |-> f.providers] :
        q \in SearchTexts, n \in NumChoices, f \in FilterChoices}
    \cup
    {[kind |-> "request", is_query |-> TRUE, query |-> q, num_results |-> n,
      providers_none |-> f.providers_none, providers |-> f.providers] :
        q \in QueryObjects, n \in NumChoices, f \in FilterChoices}

\* -------------------------------------------------------------------- Init

Init ==
    /\ settings \in SettingsChoices
    /\ providers = InitProviders(settings)
    /\ pc = "idle"
    /\ request = NoRequest
    /\ via_route = FALSE
    /\ query = NoQuery
    /\ enabled_providers = <<>>
    /\ provider_tasks = <<>>
    /\ task_state = NoTasks
    /\ task_result = EmptyLists
    /\ tasks_started = 0
    /\ await_idx = 0
    /\ provider_results_keys = <<>>
    /\ provider_results = EmptyLists
    /\ gathered = EmptyLists
    /\ error_log = {}
    /\ results = <<>>
    /\ result_counts = <<>>
    /\ rounds = 0
    /\ error = None
    /\ http_status = 0
    /\ response = NoResponse
    /\ analyses = <<>>
    /\ uuid_counter = 0
    /\ PlatformInit

\* ------------------------------------------------- SearchService.search
\* query_text = request.query.text if isinstance(...) else request.query
QueryText(req) == IF req.is_query THEN req.query.text ELSE req.query.str

\* the "proper Query object": the request's own, or Query(text=query_text)
\* (rebuilt from the text alone, a Query of the request would lose its fields)
QueryRebuilt(req) == DefaultQuery(QueryText(req))

QueryOf(req) ==
    IF req.is_query THEN req.query ELSE DefaultQuery(QueryText(req))

\* request.providers or list(self._providers.keys()): None and [] are falsy
ProvidersToUse(req, provs) ==
    IF req.providers_none \/ req.providers = <<>> THEN provs ELSE req.providers

\* the list comprehension of line 97 and the fallback of line 107
EnabledProviders(req, provs) ==
    LET en == SelectSeq(ProvidersToUse(req, provs),
                        LAMBDA p : p \in Range(provs) /\ ProviderEnabled(p))
    IN IF en = <<>> THEN provs ELSE en

\* pydantic validation of a Dict[str, Any] field: a dict passes, a float
\* is rejected with a ValidationError
DictFieldAccepts(kind) == kind = "dict"

\* the arguments of BiasAnalysis(...) at line 141 for its declared fields
\* (dark_patterns_detected is no field of the model and is ignored)
BiasAnalysisArgs ==
    [provider_bias |-> "float", commercial_bias |-> "float",
     source_bias |-> "float"]

BiasAnalysisRaises ==
    \E f \in DOMAIN BiasAnalysisArgs : ~DictFieldAccepts(BiasAnalysisArgs[f])

\* result_counts of lines 135-138, computed after _combine_results has
\* popped the lists of provider_results
ResultCounts(keys, lists, combined) ==
    [k \in Range(keys) \cup {"total"} |->
        IF k = "total" THEN Len(combined) ELSE Len(lists[k])]

\* SearchMetadata(...) of line 155: the counts are passed as results_count,
\* which is no field of the model, so result_counts keeps its default {}
SearchMetadata(engines) ==
    [engines_used |-> engines, result_counts |-> <<>>,
     aggregation_strategy |-> "interleaved"]

\* if not self._providers (line 78); skipped, search would go on with no
\* provider at all
ConfigCheckSkipped(provs) == FALSE

NoProvidersConfigured(provs) == provs = <<>>

\* the slot the loop of line 121 stores for an awaited task: its result, or
\* [] when the await raised (truncated, a slot would hold a partial list)
SlotTruncated(state, task_list) ==
    IF state = "ok" THEN SubSeq(task_list, 1, Len(task_list) - 1) ELSE <<>>

SlotOf(state, task_list) == IF state = "ok" THEN task_list ELSE <<>>

\* lines 128-175, run without suspension once the last task was awaited:
\* combine, count, build BiasAnalysis, metadata and response
Finish(req, route, q, engines, keys, lists) ==
    LET c == combine_results(keys, lists, req.num_results) IN
    /\ gathered' = lists
    /\ results' = c.all_results
    /\ provider_results' = c.lists
    /\ rounds' = c.rounds
    /\ result_counts' = ResultCounts(keys, c.lists, c.all_results)
    /\ pc' = "done"
    /\ IF BiasAnalysisRaises
       THEN /\ error' = "ValidationError"
            /\ response' = NoResponse
            /\ http_status' = IF route THEN 500 ELSE 0
       ELSE /\ error' = None
            /\ response' = [kind |-> "response", results |-> c.all_results,
                            query |-> q, metadata |-> SearchMetadata(engines)]
            /\ http_status' = IF route THEN 200 ELSE 0

\* lines 78-117: the configuration check, the query, the choice of
\* providers and one create_task per entry of enabled_providers; with no
\* task to await the rest of search follows at once
ServiceStart(req, route) ==
    /\ pc = "idle"
    /\ request' = req
    /\ via_route' = route
    /\ UNCHANGED <<settings, providers, analysisVars, platformVars>>
    /\ IF NoProvidersConfigured(providers)
       THEN /\ error' = "ValueError"
            /\ http_status' = IF route THEN 500 ELSE 0
            /\ pc' = "done"
            /\ UNCHANGED searchLocals
       ELSE LET en == EnabledProviders(req, providers) IN
            /\ query' = QueryOf(req)
            /\ enabled_providers' = en
            /\ provider_tasks' = DictKeys(en)
            /\ task_state' = [p \in ProviderNames |->
                                 IF p \in Range(en) THEN "running" ELSE "none"]
            /\ tasks_started' = Len(en)
            /\ await_idx' = 1
            /\ UNCHANGED <<task_result, provider_results_keys, error_log>>
            /\ IF en = <<>>
               THEN Finish(req, route, QueryOf(req), en, <<>>, EmptyLists)
               ELSE /\ pc' = "waiting"
                    /\ UNCHANGED <<provider_results, gathered, results,
                                   result_counts, rounds, response, error,
                                   http_status>>

\* a direct call of SearchService.search
Search(req) == ServiceStart(req, FALSE)

\* the route handler: 503 when neither API key is set, else the service
RouteSearch(req) ==
    IF ~settings.GOOGLE_API_KEY /\ ~settings.BING_API_KEY
    THEN /\ pc = "idle"
         /\ request' = req
         /\ via_route' = TRUE
         /\ http_status' = 503
         /\ pc' = "done"
         /\ UNCHANGED <<settings, providers, analysisVars, platformVars,
                         searchLocals, error>>
    ELSE ServiceStart(req, TRUE)

taskFrame == <<settings, providers, pc, request, via_route, query,
               enabled_providers, provider_tasks, tasks_started, await_idx,
               provider_results_keys, provider_results, gathered, error_log,
               results,
               result_counts, rounds, error, http_status, response,
               analysisVars, platformVars>>

\* The provider tasks run concurrently with search and end in any order.
\* _search_google and _search_bing stand for HTTP calls ("TODO: Replace this
\* with actual API call"): besides returning the mock list, the call a task
\* stands for may fail, which lines 124-126 provide for, or never answer.

\* the task of provider p returns its result list
TaskReturn(p) ==
    /\ pc = "waiting"
    /\ task_state[p] = "running"
    /\ task_state' = [task_state EXCEPT ![p] = "ok"]
    /\ task_result' = [task_result EXCEPT
                          ![p] = MockResults(p, request.num_results)]
    /\ UNCHANGED taskFrame

\* the task of provider p ends with an exception
TaskRaise(p) ==
    /\ pc = "waiting"
    /\ task_state[p] = "running"
    /\ task_state' = [task_state EXCEPT ![p] = "raised"]
    /\ UNCHANGED <<task_result, taskFrame>>

\* the provider of task p never responds
TaskHang(p) ==
    /\ pc = "waiting"
    /\ task_state[p] = "running"
    /\ task_state' = [task_state EXCEPT ![p] = "hung"]
    /\ UNCHANGED <<task_result, taskFrame>>

\* lines 121-126 for the task awaited, and after the last one lines 128-175
AwaitTask ==
    /\ pc = "waiting"
    /\ await_idx \in 1..Len(provider_tasks)
    /\ LET p == provider_tasks[await_idx]
           keys2 == Append(provider_results_keys, p)
           lists2 == [provider_results EXCEPT
                         ![p] = SlotOf(task_state[p], task_result[p])]
       IN /\ task_state[p] \in {"ok", "raised"}
          /\ provider_results_keys' = keys2
          /\ error_log' = IF task_state[p] = "raised" THEN error_log \cup {p}
                          ELSE error_log
          /\ UNCHANGED <<settings, providers, request, via_route, query,
                         enabled_providers, provider_tasks, task_state,
                         task_result, tasks_started, analysisVars,
                         platformVars>>
          /\ IF await_idx < Len(provider_tasks)
             THEN /\ await_idx' = await_idx + 1
                  /\ provider_results' = lists2
                  /\ UNCHANGED <<pc, gathered, results, result_counts, rounds,
                                 error, http_status, response>>
             ELSE /\ await_idx' = await_idx
                  /\ Finish(request, via_route, query, enabled_providers,
                            keys2, lists2)

Next ==
    \/ \E req \in SearchRequests : Search(req)
    \/ \E req \in SearchRequests : RouteSearch(req)
    \/ \E p \in ProviderNames : TaskReturn(p)
    \/ \E p \in ProviderNames : TaskRaise(p)
    \/ \E p \in ProviderNames : TaskHang(p)
    \/ AwaitTask

Spec == Init /\ [][Next]_vars

TypeOK ==
    /\ pc \in {"idle", "waiting", "done", "combine", "combined", "analyze",
             "platform"}
    /\ error \in {None, "ValueError", "ValidationError"}
    /\ http_status \in {0, 200, 500, 503}

\* ========================================================== search claims
Dispatched == Range(enabled_providers)

NoDuplicates(s) == \A i, j \in 1..Len(s) : s[i] = s[j] => i = j

\* C1: a search on a service with no enabled (configured) provider fails
\* with a configuration error (ValueError from the service, 503 or 500 from
\* the route), in the very step it is received and with no provider task
\* ever started.
C1_NoProvidersIsConfigError ==
    (pc # "idle" /\ providers = <<>>) =>
        /\ pc = "done"
        /\ tasks_started = 0
        /\ \A p \in ProviderNames : task_state[p] = "none"
        /\ response = NoResponse
        /\ error = "ValueError" \/ http_status = 503
        /\ via_route => http_status \in {500, 503}

C1_Witness ==
    /\ pc = "done"
    /\ providers = <<>>
    /\ error = "ValueError"
    /\ settings.GOOGLE_API_KEY

AllDispatchedFailed ==
    /\ pc = "done"
    /\ provider_tasks # <<>>
    /\ \A p \in Range(provider_tasks) : task_state[p] = "raised"

\* C2: when every dispatched provider call fails, search returns a
\* SearchResponse with an empty result list whose metadata has an error
\* entry per provider, and raises nothing.
C2_AllFailedStillResponds ==
    AllDispatchedFailed =>
        /\ error = None
        /\ response # NoResponse
        /\ response.results = <<>>
        /\ "errors" \in DOMAIN response.metadata
        /\ \A p \in Dispatched : p \in DOMAIN response.metadata.errors

Settled ==
    \A p \in Dispatched : task_state[p] \in {"ok", "raised", "hung"}

\* C4: a provider that never responds does not keep search from returning:
\* once every provider has answered or is known never to answer, search has
\* returned or is about to (the task it awaits is done), so it is never
\* left waiting for the straggler.
C4_ReturnsDespiteStraggler ==
    (pc = "waiting" /\ Settled) =>
        task_state[provider_tasks[await_idx]] \in {"ok", "raised"}

\* C8: the per-provider counts search computes for the metadata are the
\* numbers of results the providers returned for the request, and the total
\* is the number of results of the response.
C8_CountsMatchReturned ==
    (pc = "done" /\ provider_tasks # <<>>) =>
        /\ \A p \in Dispatched : result_counts[p] = Len(task_result[p])
        /\ result_counts["total"] = Len(results)

Urls == {"u1", "u2"}

KeyOrders == {s \in SeqsUpTo(ProviderNames, Cardinality(ProviderNames)) :
                 NoDuplicates(s)}

ProviderLists(p) ==
    {[i \in 1..Len(u) |-> [provider |-> p, rank |-> i, url |-> u[i]]] :
        u \in SeqsUpTo(Urls, MaxListLen)}

CombineInputs(keys) ==
    {l \in [ProviderNames -> UNION {ProviderLists(p) : p \in ProviderNames}] :
        \A p \in ProviderNames :
            IF p \in Range(keys) THEN l[p] \in ProviderLists(p)
            ELSE l[p] = <<>>}

CombineNums == -1..(2 * MaxListLen + 1)

CombineInit ==
    /\ settings = [GOOGLE_API_KEY |-> TRUE, GOOGLE_CX |-> TRUE,
                   BING_API_KEY |-> TRUE]
    /\ providers = InitProviders(settings)
    /\ pc = "combine"
    /\ request \in [kind : {"combine"}, num_results : CombineNums]
    /\ via_route = FALSE
    /\ query = NoQuery
    /\ enabled_providers = <<>>
    /\ provider_tasks = <<>>
    /\ task_state = NoTasks
    /\ task_result = EmptyLists
    /\ tasks_started = 0
    /\ await_idx = 0
    /\ provider_results_keys \in KeyOrders
    /\ provider_results \in CombineInputs(provider_results_keys)
    /\ gathered = provider_results
    /\ error_log = {}
    /\ results = <<>>
    /\ result_counts = <<>>
    /\ rounds = 0
    /\ error = None
    /\ http_status = 0
    /\ response = NoResponse
    /\ analyses = <<>>
    /\ uuid_counter = 0
    /\ PlatformInit

\* one call _combine_results(provider_results, num_results)
CombineCall ==
    /\ pc = "combine"
    /\ LET c == combine_results(provider_results_keys, provider_results,
                                request.num_results)
       IN /\ results' = c.all_results
          /\ provider_results' = c.lists
          /\ rounds' = c.rounds
    /\ pc' = "combined"
    /\ UNCHANGED <<settings, providers, request, via_route, query,
                   enabled_providers, provider_tasks, task_state, task_result,
                   tasks_started, await_idx, provider_results_keys, gathered,
                   error_log, result_counts, error, http_status, response,
                   analysisVars, platformVars>>

CombineNext == CombineCall

CombineSpec == CombineInit /\ [][CombineNext]_vars

\* ------------------------------------------------ _combine_results claims
\* the j-th results of the providers that have one, in key order from key i
RECURSIVE RoundItems(_, _, _, _)
RoundItems(keys, lists, j, i) ==
    IF i > Len(keys) THEN <<>>
    ELSE (IF j <= Len(lists[keys[i]]) THEN <<lists[keys[i]][j]>> ELSE <<>>)
         \o RoundItems(keys, lists, j, i + 1)

\* all results, round after round, from round j on
RECURSIVE RoundRobinFrom(_, _, _, _)
RoundRobinFrom(keys, lists, j, last) ==
    IF j > last THEN <<>>
    ELSE RoundItems(keys, lists, j, 1) \o RoundRobinFrom(keys, lists, j + 1, last)

RoundRobin(keys, lists) ==
    RoundRobinFrom(keys, lists, 1,
                   Max(Len(lists["google"]), Len(lists["bing"])))

Take(s, n) == SubSeq(s, 1, Min(Len(s), Max(n, 0)))

IsPrefix(s, t) == Len(s) <= Len(t) /\ s = SubSeq(t, 1, Len(s))

TotalGathered ==
    Len(gathered["google"]) + Len(gathered["bing"])

\* C5: _combine_results returns the round-robin interleaving of the lists in
\* key order, cut at num_results: round j holds the j-th result of every
\* provider that has one; each provider's results keep their order and no
\* result is taken twice.
C5_RoundRobinInterleaving ==
    pc = "combined" =>
        /\ results = Take(RoundRobin(provider_results_keys, gathered),
                          request.num_results)
        /\ \A p \in ProviderNames :
              IsPrefix(SelectSeq(results, LAMBDA r : r.provider = p),
                       gathered[p])
        /\ NoDuplicates(results)

\* providers A, B with three results each give A1, B1, A2, B2, A3, B3
C5_Witness ==
    /\ pc = "combined"
    /\ provider_results_keys = <<"bing", "google">>
    /\ Len(gathered["bing"]) = 3
    /\ Len(gathered["google"]) = 3
    /\ results = <<gathered["bing"][1], gathered["google"][1],
                   gathered["bing"][2], gathered["google"][2],
                   gathered["bing"][3], gathered["google"][3]>>

\* C6: the combined list never has more than num_results results (none for
\* num_results <= 0), and the while loop ends after at most one round per
\* available result plus one.
C6_AtMostNumResults ==
    pc = "combined" =>
        /\ Len(results) <= Max(request.num_results, 0)
        /\ request.num_results <= 0 => results = <<>>
        /\ rounds <= TotalGathered + 1

C6_Witness ==
    /\ pc = "combined"
    /\ request.num_results = 3
    /\ Len(results) = 3
    /\ TotalGathered = 2 * MaxListLen
    /\ rounds = 2

\* C7: results of different providers with the same URL are collapsed: no
\* two results of the combined list that come from different providers
\* share a URL, and the list is no longer than the lists together.
C7_SharedUrlCollapsed ==
    pc = "combined" =>
        /\ \A i, j \in 1..Len(results) :
              results[i].provider # results[j].provider
                  => results[i].url # results[j].url
        /\ Len(results) <= TotalGathered

\* ================================================== analyze_query alone
\* SearchService.analyze_query(query_text): the Query it returns
AnalyzedQuery(query_text, uuid) ==
    [text |-> query_text, intent |-> "informational", locality |-> "global",
     language |-> "en", query_id |-> uuid, processed_text |-> Lower(query_text)]

AnalyzeInit ==
    /\ settings \in SettingsChoices
    /\ providers = InitProviders(settings)
    /\ pc = "analyze"
    /\ request = NoRequest
    /\ via_route = FALSE
    /\ query = NoQuery
    /\ enabled_providers = <<>>
    /\ provider_tasks = <<>>
    /\ task_state = NoTasks
    /\ task_result = EmptyLists
    /\ tasks_started = 0
    /\ await_idx = 0
    /\ provider_results_keys = <<>>
    /\ provider_results = EmptyLists
    /\ gathered = EmptyLists
    /\ error_log = {}
    /\ results = <<>>
    /\ result_counts = <<>>
    /\ rounds = 0
    /\ error = None
    /\ http_status = 0
    /\ response = NoResponse
    /\ analyses = <<>>
    /\ uuid_counter = 0
    /\ PlatformInit

\* one call of analyze_query; uuid4() is the next value never drawn before
AnalyzeQuery(query_text) ==
    /\ pc = "analyze"
    /\ Len(analyses) < MaxAnalyses
    /\ uuid_counter' = uuid_counter + 1
    /\ analyses' = Append(analyses, AnalyzedQuery(query_text, uuid_counter + 1))
    /\ UNCHANGED <<settings, providers, pc, request, via_route, searchLocals,
                   error, http_status, platformVars>>

AnalyzeNext == \E query_text \in Texts : AnalyzeQuery(query_text)

AnalyzeSpec == AnalyzeInit /\ [][AnalyzeNext]_vars

\* a text without a single character gives a classifier nothing to label
Inconclusive(query_text) == query_text = <<>>

\* C9: analyze_query never fails, two calls with the same text agree on
\* intent, locality, language and processed text, and a text no confident
\* label can be produced for gets intent and locality undefined.
C9_AnalysisDeterministicOrUndefined ==
    /\ error = None
    /\ \A i, j \in 1..Len(analyses) :
          analyses[i].text = analyses[j].text =>
              /\ analyses[i].intent = analyses[j].intent
              /\ analyses[i].locality = analyses[j].locality
              /\ analyses[i].language = analyses[j].language
              /\ analyses[i].processed_text = analyses[j].processed_text
    /\ \A i \in 1..Len(analyses) :
          Inconclusive(analyses[i].text) =>
              /\ analyses[i].intent = "undefined"
              /\ analyses[i].locality = "undefined"

\* ===================================================== the other services
\* search and analyze_query at rest, for the specifications of the other
\* services
searchAllVars == <<settings, providers, pc, request, via_route, searchLocals,
                   error, http_status, analysisVars>>

SearchAtRest ==
    /\ settings = [GOOGLE_API_KEY |-> TRUE, GOOGLE_CX |-> TRUE,
                   BING_API_KEY |-> TRUE]
    /\ providers = InitProviders(settings)
    /\ pc = "platform"
    /\ request = NoRequest
    /\ via_route = FALSE
    /\ query = NoQuery
    /\ enabled_providers = <<>>
    /\ provider_tasks = <<>>
    /\ task_state = NoTasks
    /\ task_result = EmptyLists
    /\ tasks_started = 0
    /\ await_idx = 0
    /\ provider_results_keys = <<>>
    /\ provider_results = EmptyLists
    /\ gathered = EmptyLists
    /\ error_log = {}
    /\ results = <<>>
    /\ result_counts = <<>>
    /\ rounds = 0
    /\ error = None
    /\ http_status = 0
    /\ response = NoResponse
    /\ analyses = <<>>
    /\ uuid_counter = 0

\* what the actions of one service leave alone
frameAuth == <<searchAllVars, persVars, concVars, backupVars, schedVars,
               notifVars, vectorVars>>

framePers == <<searchAllVars, authVars, concVars, backupVars, schedVars,
               notifVars, vectorVars>>

frameConc == <<searchAllVars, authVars, persVars, backupVars, schedVars,
               notifVars, vectorVars>>

frameBackup == <<searchAllVars, authVars, persVars, concVars, schedVars,
                 notifVars, vectorVars>>

frameSched == <<searchAllVars, authVars, persVars, concVars, backupVars,
                notifVars, vectorVars>>

frameNotif == <<searchAllVars, authVars, persVars, concVars, backupVars,
                schedVars, vectorVars>>

frameVector == <<searchAllVars, authVars, persVars, concVars, backupVars,
                 schedVars, notifVars>>

\* ------------------------------------------------ API key (api/app.py)
\* the header of a request: absent, or one of two keys; the tests take
\* "test-api-key" for the valid key and "invalid-key" for an invalid one
NoKey == ""

ApiKeys == {NoKey, "invalid-key", "test-api-key"}

ValidApiKeys == {"test-api-key"}

\* endpoints behind Security(get_api_key) / Depends(get_api_key)
ProtectedEndpoints == {"validate", "update_user_profile", "create_backup"}

\* get_api_key: raises 401 if not api_key_header, else returns the header
GetApiKeyAccepts(api_key_header) == api_key_header # NoKey

\* one request to a protected endpoint: the dependency, then the handler
ApiRequest(endpoint, api_key_header) ==
    /\ Len(api_log) < MaxApiRequests
    /\ api_log' = Append(api_log,
          IF GetApiKeyAccepts(api_key_header)
          THEN [endpoint |-> endpoint, key |-> api_key_header,
                status |-> 200, handler_ran |-> TRUE]
          ELSE [endpoint |-> endpoint, key |-> api_key_header,
                status |-> 401, handler_ran |-> FALSE])
    /\ UNCHANGED frameAuth

AuthInit == SearchAtRest /\ PlatformInit

AuthNext ==
    \E endpoint \in ProtectedEndpoints, k \in ApiKeys : ApiRequest(endpoint, k)

AuthSpec == AuthInit /\ [][AuthNext]_vars

\* C11: a request to a protected endpoint with a missing or an invalid API
\* key is answered 401 and its handler does not run; one with a valid key
\* is accepted and handled.
C11_InvalidKeyRejected ==
    \A i \in 1..Len(api_log) :
        IF api_log[i].key \in ValidApiKeys
        THEN api_log[i].status = 200 /\ api_log[i].handler_ran
        ELSE api_log[i].status = 401 /\ ~api_log[i].handler_ran

\* ------------------------------- personalization (services/personalization.py)
\* scores are in hundredths: 0.95 is 95
UserIds == {"u1", "u2"}

\* the profile get_user_profile makes up for a user it has not stored
MockProfile(user_id) ==
    [user_id |-> user_id,
     topics_of_interest |-> <<"AI", "machine learning", "Python",
                              "data science">>,
     search_history |-> <<"fastapi tutorial", "vector database python",
                          "machine learning datasets">>]

\* profiles a client sends (updated_at, the time of the write, is left out)
ProfileInputs ==
    {[user_id |-> u, topics_of_interest |-> t, search_history |-> <<>>] :
        u \in UserIds, t \in {<<>>, <<"testing">>, <<"Python", "testing">>}}

\* content items: Dict[str, Any], so a score may be absent or out of range
ContentItems ==
    {[id |-> "result1", title |-> "Python Tutorial", has_score |-> TRUE,
      score |-> 95, has_timestamp |-> FALSE, days_old |-> 0],
     [id |-> "result2", title |-> "FastAPI Documentation", has_score |-> TRUE,
      score |-> 90, has_timestamp |-> TRUE, days_old |-> 0],
     [id |-> "result3", title |-> "Testing", has_score |-> FALSE,
      score |-> 0, has_timestamp |-> TRUE, days_old |-> 30],
     [id |-> "result4", title |-> "Python Tutorial", has_score |-> TRUE,
      score |-> 150, has_timestamp |-> FALSE, days_old |-> 0],
     [id |-> "result5", title |-> "Testing", has_score |-> TRUE,
      score |-> 0 - 10, has_timestamp |-> FALSE, days_old |-> 0]}

ContentInputs == SeqsUpTo(ContentItems, MaxContentLen)

\* needle.lower() in title.lower(), for the titles and needles above
TitleContains(title, needle) ==
    <<title, needle>> \in {<<"Python Tutorial", "Python">>,
                           <<"Testing", "testing">>}

\* self._user_profiles[user_id] = profile
DictPut(d, k, v) == [x \in DOMAIN d \cup {k} |-> IF x = k THEN v ELSE d[x]]

\* UserProfile is a pydantic model, not a dict: `name in profile` iterates
\* its (name, value) pairs and is False, and profile.get does not exist
ProfileIsMapping == FALSE

\* the number of elements of needles found in the title
RECURSIVE CountMatches(_, _)
CountMatches(title, needles) ==
    IF needles = <<>> THEN 0
    ELSE CountMatches(title, Tail(needles))
         + (IF TitleContains(title, Head(needles)) THEN 1 ELSE 0)

\* topic boost: 0.1 per matched topic, at most 0.3
TopicBoost(item, profile) ==
    IF ProfileIsMapping
    THEN Min(10 * CountMatches(item.title, profile.topics_of_interest), 30)
    ELSE 0

\* recency boost: max(0.0, 0.2 - days_old * 0.01)
RecencyBoost(item) ==
    IF item.has_timestamp THEN Max(0, 20 - item.days_old) ELSE 0

\* history match: 0.05 per matching past query, at most 0.15
HistoryBoost(item, profile) ==
    IF ProfileIsMapping
    THEN Min(5 * CountMatches(item.title, profile.search_history), 15)
    ELSE 0

\* max(0.0, min(1.0, personalized_score))
Clamp(x) == Max(0, Min(100, x))

\* item.get("score", default)
ScoreOr(item, default) == IF item.has_score THEN item.score ELSE default

\* the loop over the items: one PersonalizationResult per item, and the
\* item's score overwritten in place
RECURSIVE PersonalizeFrom(_, _, _, _)
PersonalizeFrom(i, content, personalization_results, profile) ==
    IF i > Len(content)
    THEN [results |-> personalization_results, content |-> content]
    ELSE LET item == content[i]
             original_score == ScoreOr(item, 50)
             personalized_score ==
                 Clamp(original_score + TopicBoost(item, profile)
                       + RecencyBoost(item) + HistoryBoost(item, profile))
             rank_change ==
                 IF i > 1 /\ personalized_score > ScoreOr(content[i - 1], 0)
                 THEN 0 - 1
                 ELSE IF i < Len(content)
                         /\ personalized_score < ScoreOr(content[i + 1], 0)
                      THEN 1
                      ELSE 0
             result == [id |-> item.id,
                        original_score |-> original_score,
                        personalized_score |-> personalized_score,
                        rank_change |-> rank_change]
         IN PersonalizeFrom(i + 1,
                [content EXCEPT ![i] = [item EXCEPT !.has_score = TRUE,
                                           !.score = personalized_score]],
                Append(personalization_results, result), profile)

\* list.sort(key=score, reverse=True): stable, equal scores keep their order
RECURSIVE InsertByScore(_, _)
InsertByScore(x, s) ==
    IF s = <<>> THEN <<x>>
    ELSE IF ScoreOr(Head(s), 0) >= ScoreOr(x, 0)
         THEN <<Head(s)>> \o InsertByScore(x, Tail(s))
         ELSE <<x>> \o s

RECURSIVE SortByScore(_)
SortByScore(s) ==
    IF s = <<>> THEN <<>>
    ELSE InsertByScore(s[Len(s)], SortByScore(SubSeq(s, 1, Len(s) - 1)))

PersCall(op, user_id, profile, content, ok, status, err, value, res, out) ==
    [op |-> op, user_id |-> user_id, profile |-> profile,
     content |-> content, ok |-> ok, status |-> status, error |-> err,
     value |-> value, results |-> res, out_content |-> out]

\* the stored profile of user_id, made up and stored if there is none
ProfileOf(user_id) ==
    IF user_id \in DOMAIN user_profiles THEN user_profiles[user_id]
    ELSE MockProfile(user_id)

\* GET /profile/{user_id}
GetUserProfile(user_id) ==
    /\ pc = "platform"
    /\ IF ~personalization_enabled
       THEN /\ pers_call' = PersCall("get", user_id, NoProfile, <<>>, FALSE,
                                     503, "HTTPException", NoProfile,
                                     <<>>, <<>>)
            /\ UNCHANGED user_profiles
       ELSE /\ user_profiles' = DictPut(user_profiles, user_id,
                                        ProfileOf(user_id))
            /\ pers_call' = PersCall("get", user_id, NoProfile, <<>>, TRUE,
                                     200, "", ProfileOf(user_id), <<>>, <<>>)
    /\ UNCHANGED <<framePers, personalization_enabled>>

\* update_user_profile raises ValueError when the ids differ (the route
\* makes the same test first and answers 400)
NoMismatch(user_id, profile) == FALSE

UserIdMismatch(user_id, profile) == user_id # profile.user_id

\* PUT /profile/{user_id}
UpdateUserProfile(user_id, profile) ==
    /\ pc = "platform"
    /\ IF ~personalization_enabled
       THEN /\ pers_call' = PersCall("update", user_id, profile, <<>>, FALSE,
                                     503, "HTTPException", NoProfile,
                                     <<>>, <<>>)
            /\ UNCHANGED user_profiles
       ELSE IF UserIdMismatch(user_id, profile)
       THEN /\ pers_call' = PersCall("update", user_id, profile, <<>>, FALSE,
                                     400, "ValueError", NoProfile, <<>>, <<>>)
            /\ UNCHANGED user_profiles
       ELSE /\ user_profiles' = DictPut(user_profiles, user_id, profile)
            /\ pers_call' = PersCall("update", user_id, profile, <<>>, TRUE,
                                     200, "", profile, <<>>, <<>>)
    /\ UNCHANGED <<framePers, personalization_enabled>>

\* POST /rerank: the profile is fetched (and stored if new), the items are
\* scored and sorted, and then profile.get("created_at") is evaluated
PersonalizeContent(user_id, content) ==
    /\ pc = "platform"
    /\ IF ~personalization_enabled
       THEN /\ pers_call' = PersCall("personalize", user_id, NoProfile,
                                     content, FALSE, 503, "HTTPException",
                                     NoProfile, <<>>, <<>>)
            /\ UNCHANGED user_profiles
       ELSE LET profile == ProfileOf(user_id)
                scored == PersonalizeFrom(1, content, <<>>, profile)
                sorted == SortByScore(scored.content)
            IN /\ user_profiles' = DictPut(user_profiles, user_id, profile)
               /\ pers_call' =
                    IF ProfileIsMapping
                    THEN PersCall("personalize", user_id, NoProfile, content,
                                  TRUE, 200, "", NoProfile,
                                  scored.results, sorted)
                    ELSE PersCall("personalize", user_id, NoProfile, content,
                                  FALSE, 500, "AttributeError", NoProfile,
                                  <<>>, <<>>)
    /\ UNCHANGED <<framePers, personalization_enabled>>

PersInit ==
    /\ SearchAtRest
    /\ api_log = <<>>
    /\ personalization_enabled \in BOOLEAN
    /\ user_profiles = [u \in {} |-> NoProfile]
    /\ pers_call = NoPersCall
    /\ calls = [i \in CallIds |-> NoCall]
    /\ BackupAtRest
    /\ SchedAtRest
    /\ NotifAtRest
    /\ VectorAtRest

PersNext ==
    \/ \E u \in UserIds : GetUserProfile(u)
    \/ \E u \in UserIds, p \in ProfileInputs : UpdateUserProfile(u, p)
    \/ \E u \in UserIds, c \in ContentInputs : PersonalizeContent(u, c)

PersSpec == PersInit /\ [][PersNext]_vars

\* C12: a successful update_user_profile(u, p) stores p for u and leaves
\* every other user's profile as it was; get_user_profile(u) returns what is
\* stored for u, and nothing but an update for u changes a stored profile,
\* so it returns p until the next update; an update whose profile.user_id
\* differs from u is answered with an error and changes no stored profile.
C12_UpdateThenGet ==
    [][LET c == pers_call'
           others(u) == (DOMAIN user_profiles) \ {u}
       IN /\ (c.op = "update" /\ c.ok) =>
                 /\ c.user_id \in DOMAIN user_profiles'
                 /\ user_profiles'[c.user_id] = c.profile
                 /\ DOMAIN user_profiles' = DOMAIN user_profiles \cup {c.user_id}
                 /\ \A v \in others(c.user_id) :
                        user_profiles'[v] = user_profiles[v]
          /\ (c.op = "update" /\ c.user_id # c.profile.user_id) =>
                 /\ ~c.ok
                 /\ c.status = IF personalization_enabled THEN 400 ELSE 503
                 /\ user_profiles' = user_profiles
          /\ (c.op # "update") =>
                 \A v \in DOMAIN user_profiles :
                     /\ v \in DOMAIN user_profiles'
                     /\ user_profiles'[v] = user_profiles[v]
          /\ (c.op = "get" /\ c.ok /\ c.user_id \in DOMAIN user_profiles) =>
                 c.value = user_profiles[c.user_id]]_vars

\* a get that returns a profile written by an earlier update
C12_Witness ==
    /\ pers_call.op = "get"
    /\ pers_call.ok
    /\ pers_call.value = [user_id |-> "u1",
                          topics_of_interest |-> <<"Python", "testing">>,
                          search_history |-> <<>>]
    /\ "u2" \in DOMAIN user_profiles
    /\ user_profiles["u2"] = MockProfile("u2")

IsPermutationOfIds(a, b) ==
    /\ Len(a) = Len(b)
    /\ \E f \in [1..Len(a) -> 1..Len(a)] :
          /\ \A i, j \in 1..Len(a) : i # j => f[i] # f[j]
          /\ \A i \in 1..Len(a) : a[i].id = b[f[i]].id

\* C13: personalize_content returns one result per input item and a content
\* list that is a permutation of the input, ordered by non-increasing
\* personalized score, every personalized score within [0, 1].
C13_OneResultPerItemSorted ==
    (pers_call.op = "personalize" /\ personalization_enabled) =>
        /\ pers_call.ok
        /\ Len(pers_call.results) = Len(pers_call.content)
        /\ IsPermutationOfIds(pers_call.out_content, pers_call.content)
        /\ \A i \in 1..Len(pers_call.out_content) - 1 :
              pers_call.out_content[i].score
                  >= pers_call.out_content[i + 1].score
        /\ \A i \in 1..Len(pers_call.results) :
              pers_call.results[i].personalized_score \in 0..100

\* ------------------------------------------ concurrent searches (search.py)
\* Two calls of SearchService.search in flight on the one service object.
\* Each call has its own locals; self._providers is only read.
ConcRequests ==
    {[kind |-> "request", is_query |-> FALSE, query |-> [str |-> <<"a">>],
      num_results |-> n, providers_none |-> f = <<>>, providers |-> f] :
        n \in {1, 2}, f \in {<<>>, <<"google">>, <<"bing", "google">>}}

\* provider_results = {} (line 120) is a local of the call that fills it
\* (an attribute of the service would be the one dict of every call)
ResultsOnService(i) == 1

ResultsOwner(i) == i

\* lines 78-117 of call i: up to the first await
ConcStart(i, req) ==
    /\ pc = "platform"
    /\ calls[i].pc = "idle"
    /\ LET en == EnabledProviders(req, providers) IN
       calls' = [calls EXCEPT ![i] =
                    [NoCall EXCEPT
                        !.pc = "waiting",
                        !.request = req,
                        !.enabled_providers = en,
                        !.provider_tasks = DictKeys(en),
                        !.task_state = [p \in ProviderNames |->
                            IF p \in Range(en) THEN "running" ELSE "none"],
                        !.await_idx = 1]]
    /\ UNCHANGED frameConc

\* the task of provider p of call i returns its result list
ConcTaskReturn(i, p) ==
    /\ calls[i].pc = "waiting"
    /\ calls[i].task_state[p] = "running"
    /\ calls' = [calls EXCEPT
                    ![i].task_state[p] = "ok",
                    ![i].task_result[p] =
                        MockResults(p, calls[i].request.num_results)]
    /\ UNCHANGED frameConc

\* the task of provider p of call i ends with an exception
ConcTaskRaise(i, p) ==
    /\ calls[i].pc = "waiting"
    /\ calls[i].task_state[p] = "running"
    /\ calls' = [calls EXCEPT ![i].task_state[p] = "raised"]
    /\ UNCHANGED frameConc

\* lines 121-126 of call i for the task awaited, and after the last one
\* lines 128-175
ConcAwait(i) ==
    /\ calls[i].pc = "waiting"
    /\ calls[i].await_idx \in 1..Len(calls[i].provider_tasks)
    /\ LET c == calls[i]
           o == ResultsOwner(i)
           p == c.provider_tasks[c.await_idx]
           keys2 == DictKeys(Append(calls[o].provider_results_keys, p))
           lists2 == [calls[o].provider_results EXCEPT
                         ![p] = SlotOf(c.task_state[p], c.task_result[p])]
           comb == combine_results(keys2, lists2,
                                   c.request.num_results)
       IN /\ c.task_state[p] \in {"ok", "raised"}
          /\ IF c.await_idx < Len(c.provider_tasks)
             THEN calls' = [calls EXCEPT
                              ![o].provider_results_keys = keys2,
                              ![o].provider_results = lists2,
                              ![i].await_idx = c.await_idx + 1]
             ELSE calls' = [calls EXCEPT
                              ![o].provider_results_keys = keys2,
                              ![o].provider_results = comb.lists,
                              ![i].gathered = lists2,
                              ![i].results = comb.all_results,
                              ![i].error = IF BiasAnalysisRaises
                                           THEN "ValidationError" ELSE None,
                              ![i].pc = "done"]
    /\ UNCHANGED frameConc

ConcInit == SearchAtRest /\ PlatformInit

ConcNext ==
    \/ \E i \in CallIds, req \in ConcRequests : ConcStart(i, req)
    \/ \E i \in CallIds, p \in ProviderNames : ConcTaskReturn(i, p)
    \/ \E i \in CallIds, p \in ProviderNames : ConcTaskRaise(i, p)
    \/ \E i \in CallIds : ConcAwait(i)

ConcSpec == ConcInit /\ [][ConcNext]_vars

\* what a call holds for provider p when it runs alone: the slot of its own
\* task once awaited, nothing before
OwnSlot(c, p, awaited) ==
    IF p \in Range(SubSeq(c.provider_tasks, 1, awaited))
    THEN SlotOf(c.task_state[p], MockResults(p, c.request.num_results))
    ELSE <<>>

OwnLists(c, awaited) == [p \in ProviderNames |-> OwnSlot(c, p, awaited)]

\* C14: concurrent searches share no mutable state: the per-provider map of
\* a call holds the outcomes of its own tasks only, whatever the other call
\* does, and a finished call has the results it would have computed alone
\* from its own request and its own providers' outcomes.
C14_CallsIsolated ==
    \A i \in CallIds :
        LET c == calls[i] IN
        /\ c.pc = "waiting" =>
              /\ c.provider_results_keys
                     = SubSeq(c.provider_tasks, 1, c.await_idx - 1)
              /\ c.provider_results = OwnLists(c, c.await_idx - 1)
        /\ c.pc = "done" =>
              /\ c.provider_results_keys = c.provider_tasks
              /\ c.gathered = OwnLists(c, Len(c.provider_tasks))
              /\ c.results =
                    combine_results(c.provider_tasks, c.gathered,
                                    c.request.num_results).all_results
              /\ c.provider_tasks
                     = DictKeys(EnabledProviders(c.request, providers))

\* both calls in flight, each with one of its two slots filled, on
\* different requests
C14_Witness ==
    /\ calls[1].pc = "waiting"
    /\ calls[2].pc = "waiting"
    /\ calls[1].await_idx = 2
    /\ calls[2].await_idx = 2
    /\ calls[1].request.num_results # calls[2].request.num_results
    /\ calls[1].provider_results["google"] # <<>>
    /\ calls[2].provider_results["bing"] # <<>>

\* C15: when a search request names providers, only those are used: every
\* provider queried, every entry of engines_used and the provider of every
\* result belongs to the request's providers.
C15_OnlyNamedProvidersUsed ==
    (pc \in {"waiting", "done"} /\ providers # <<>>
     /\ ~request.providers_none /\ request.providers # <<>>) =>
        /\ Range(enabled_providers) \subseteq Range(request.providers)
        /\ \A p \in ProviderNames :
              task_state[p] # "none" => p \in Range(request.providers)
        /\ \A i \in 1..Len(results) :
              results[i].provider \in Range(request.providers)

\* --------------------------------------------- backup (services/backup.py)
\* The settings object: "shipped" is config/settings.py as it is, which
\* declares none of VERSION, BACKUP_ENABLED and RESTORE_ENABLED, so reading
\* one raises AttributeError; "enabled" and "disabled" are deployments whose
\* settings define them, with the two flags on or off.
BackupSettings == {"shipped", "disabled", "enabled"}

\* the answer of a route whose settings flag is missing or off
RouteRefusal(op, id) ==
    IF backup_settings = "shipped"
    THEN [op |-> op, id |-> id, ok |-> FALSE, status |-> 500,
          error |-> "AttributeError"]
    ELSE [op |-> op, id |-> id, ok |-> FALSE, status |-> 503,
          error |-> "HTTPException"]

\* str(uuid4()): an id no job has had
NextBackupId ==
    Cardinality({i \in BackupIds : backup_objects[i].status # "NONE"}) + 1

NextRestoreId ==
    Cardinality({i \in RestoreIds : restore_objects[i].status # "NONE"}) + 1

backupTaskVars == <<backup_objects, backup_jobs, backup_tasks, files>>

restoreTaskVars == <<restore_objects, restore_jobs, restore_tasks>>

\* POST /jobs and create_backup: the job is stored PENDING, its task is
\* created and the job is returned
CreateBackup(backup_path) ==
    /\ pc = "platform"
    /\ IF backup_settings # "enabled"
       THEN /\ backup_call' = RouteRefusal("create", 0)
            /\ UNCHANGED backupTaskVars
       ELSE /\ NextBackupId \in BackupIds
            /\ LET job_id == NextBackupId IN
               /\ backup_objects' = [backup_objects EXCEPT ![job_id] =
                      [status |-> "PENDING", file_path |-> NoPath,
                       error_message |-> "", started_at_set |-> FALSE,
                       completed_at_set |-> FALSE]]
               /\ backup_jobs' = backup_jobs \cup {job_id}
               /\ backup_tasks' = [backup_tasks EXCEPT ![job_id] =
                      [pc |-> "scheduled", path |-> backup_path]]
               /\ backup_call' = [op |-> "create", id |-> job_id,
                                  ok |-> TRUE, status |-> 202, error |-> ""]
            /\ UNCHANGED files
    /\ UNCHANGED <<frameBackup, backup_settings, restoreTaskVars, deleted>>

\* job.status = RUNNING with started_at, in both job runners
JobStarted(job) == [job EXCEPT !.status = "RUNNING", !.started_at_set = TRUE]

\* the except block without the stamp of the finally block
JobFailedUnstamped(job, error_message) ==
    [job EXCEPT !.status = "FAILED", !.error_message = error_message]

\* the except and finally blocks of both job runners: FAILED with the
\* error's text, and completed_at stamped
JobFailed(job, error_message) ==
    [job EXCEPT !.status = "FAILED", !.error_message = error_message,
                !.completed_at_set = TRUE]

\* the end of the try block and the finally block of _run_backup_job
BackupJobCompleted(job, path) ==
    [job EXCEPT !.status = "COMPLETED", !.file_path = path,
                !.completed_at_set = TRUE]

\* _run_backup_job up to its sleep: returns if the job is not stored, else
\* marks it RUNNING
BackupTaskStart(job_id) ==
    /\ backup_tasks[job_id].pc = "scheduled"
    /\ IF job_id \notin backup_jobs
       THEN /\ backup_tasks' = [backup_tasks EXCEPT ![job_id].pc = "returned"]
            /\ UNCHANGED <<backup_objects, backup_jobs>>
       ELSE /\ backup_objects' = [backup_objects EXCEPT
                  ![job_id] = JobStarted(backup_objects[job_id])]
            /\ backup_jobs' = backup_jobs \cup {job_id}
            /\ backup_tasks' = [backup_tasks EXCEPT ![job_id].pc = "sleeping"]
    /\ UNCHANGED <<frameBackup, backup_settings, files, restoreTaskVars,
                   backup_call, deleted>>

\* the finally block: self._backup_jobs[job_id] = job
StoreAgain(jobs, job_id) == jobs \cup {job_id}

\* _run_backup_job after its sleep, without error: the file is written and
\* the job is COMPLETED
BackupTaskComplete(job_id) ==
    /\ backup_tasks[job_id].pc = "sleeping"
    /\ files' = files \cup {backup_tasks[job_id].path}
    /\ backup_objects' = [backup_objects EXCEPT ![job_id] =
           BackupJobCompleted(backup_objects[job_id],
                              backup_tasks[job_id].path)]
    /\ backup_jobs' = StoreAgain(backup_jobs, job_id)
    /\ backup_tasks' = [backup_tasks EXCEPT ![job_id].pc = "returned"]
    /\ UNCHANGED <<frameBackup, backup_settings, restoreTaskVars,
                   backup_call, deleted>>

\* _run_backup_job after its sleep, with touch() or the write raising: the
\* job is FAILED with the error's text (touched: the file was made before)
BackupTaskFail(job_id, touched) ==
    /\ backup_tasks[job_id].pc = "sleeping"
    /\ files' = IF touched THEN files \cup {backup_tasks[job_id].path}
                ELSE files
    /\ backup_objects' = [backup_objects EXCEPT ![job_id] =
           JobFailed(backup_objects[job_id], "OSError")]
    /\ backup_jobs' = StoreAgain(backup_jobs, job_id)
    /\ backup_tasks' = [backup_tasks EXCEPT ![job_id].pc = "returned"]
    /\ UNCHANGED <<frameBackup, backup_settings, restoreTaskVars,
                   backup_call, deleted>>

\* DELETE /jobs/{job_id} and delete_backup (unlink_fails: unlink raises,
\* which is logged and the record deleted all the same)
DeleteBackup(job_id, unlink_fails) ==
    /\ pc = "platform"
    /\ IF backup_settings # "enabled"
       THEN /\ backup_call' = RouteRefusal("delete", job_id)
            /\ UNCHANGED <<backup_jobs, files, deleted>>
       ELSE IF job_id \notin backup_jobs
       THEN /\ backup_call' = [op |-> "delete", id |-> job_id, ok |-> FALSE,
                               status |-> 404, error |-> "HTTPException"]
            /\ UNCHANGED <<backup_jobs, files, deleted>>
       ELSE /\ files' = IF unlink_fails THEN files
                        ELSE files \ {backup_objects[job_id].file_path}
            /\ backup_jobs' = backup_jobs \ {job_id}
            /\ deleted' = deleted \cup {job_id}
            /\ backup_call' = [op |-> "delete", id |-> job_id, ok |-> TRUE,
                               status |-> 204, error |-> ""]
    /\ UNCHANGED <<frameBackup, backup_settings, backup_objects, backup_tasks,
                   restoreTaskVars>>

\* the three tests of restore_from_backup on its source backup
RestoreAllowed(source_backup_id) ==
    /\ source_backup_id \in backup_jobs
    /\ backup_objects[source_backup_id].status = "COMPLETED"
    /\ backup_objects[source_backup_id].file_path # NoPath

\* POST /restore and restore_from_backup
RestoreFromBackup(source_backup_id) ==
    /\ pc = "platform"
    /\ IF backup_settings # "enabled"
       THEN /\ backup_call' = RouteRefusal("restore", source_backup_id)
            /\ UNCHANGED restoreTaskVars
       ELSE IF ~RestoreAllowed(source_backup_id)
       THEN /\ backup_call' = [op |-> "restore", id |-> source_backup_id,
                               ok |-> FALSE, status |-> 400,
                               error |-> "ValueError"]
            /\ UNCHANGED restoreTaskVars
       ELSE /\ NextRestoreId \in RestoreIds
            /\ LET job_id == NextRestoreId IN
               /\ restore_objects' = [restore_objects EXCEPT ![job_id] =
                      [status |-> "PENDING",
                       source_backup_id |-> source_backup_id,
                       error_message |-> "", started_at_set |-> FALSE,
                       completed_at_set |-> FALSE]]
               /\ restore_jobs' = restore_jobs \cup {job_id}
               /\ restore_tasks' = [restore_tasks EXCEPT ![job_id] =
                      [pc |-> "scheduled",
                       path |-> backup_objects[source_backup_id].file_path]]
            /\ backup_call' = [op |-> "restore", id |-> source_backup_id,
                               ok |-> TRUE, status |-> 202, error |-> ""]
    /\ UNCHANGED <<frameBackup, backup_settings, backupTaskVars, deleted>>

\* _run_restore_job up to its sleep: RUNNING, then FAILED at once if the
\* backup file is not there
RestoreTaskStart(job_id) ==
    /\ restore_tasks[job_id].pc = "scheduled"
    /\ IF job_id \notin restore_jobs
       THEN /\ restore_tasks' = [restore_tasks EXCEPT
                                    ![job_id].pc = "returned"]
            /\ UNCHANGED restore_objects
       ELSE IF restore_tasks[job_id].path \notin files
       THEN /\ restore_objects' = [restore_objects EXCEPT
                  ![job_id] = JobFailed(JobStarted(restore_objects[job_id]),
                                        "FileNotFoundError")]
            /\ restore_tasks' = [restore_tasks EXCEPT
                                    ![job_id].pc = "returned"]
       ELSE /\ restore_objects' = [restore_objects EXCEPT
                  ![job_id] = JobStarted(restore_objects[job_id])]
            /\ restore_tasks' = [restore_tasks EXCEPT
                                    ![job_id].pc = "sleeping"]
    /\ UNCHANGED <<frameBackup, backup_settings, backupTaskVars, restore_jobs,
                   backup_call, deleted>>

\* _run_restore_job after its sleep
RestoreTaskComplete(job_id) ==
    /\ restore_tasks[job_id].pc = "sleeping"
    /\ restore_objects' = [restore_objects EXCEPT
           ![job_id] = [restore_objects[job_id] EXCEPT
                           !.status = "COMPLETED",
                           !.completed_at_set = TRUE]]
    /\ restore_tasks' = [restore_tasks EXCEPT ![job_id].pc = "returned"]
    /\ UNCHANGED <<frameBackup, backup_settings, backupTaskVars, restore_jobs,
                   backup_call, deleted>>

BackupInit ==
    /\ SearchAtRest
    /\ api_log = <<>>
    /\ personalization_enabled = TRUE
    /\ user_profiles = [u \in {} |-> NoProfile]
    /\ pers_call = NoPersCall
    /\ calls = [i \in CallIds |-> NoCall]
    /\ backup_settings \in BackupSettings
    /\ backup_objects = [i \in BackupIds |-> NoBackupJob]
    /\ backup_jobs = {}
    /\ backup_tasks = [i \in BackupIds |-> NoTask]
    /\ files = {}
    /\ restore_objects = [i \in RestoreIds |-> NoRestoreJob]
    /\ restore_jobs = {}
    /\ restore_tasks = [i \in RestoreIds |-> NoTask]
    /\ backup_call = NoBackupCall
    /\ deleted = {}
    /\ SchedAtRest
    /\ NotifAtRest
    /\ VectorAtRest

BackupNext ==
    \/ \E f \in BackupPaths : CreateBackup(f)
    \/ \E i \in BackupIds : BackupTaskStart(i)
    \/ \E i \in BackupIds : BackupTaskComplete(i)
    \/ \E i \in BackupIds, touched \in BOOLEAN : BackupTaskFail(i, touched)
    \/ \E i \in BackupIds, unlink_fails \in BOOLEAN :
          DeleteBackup(i, unlink_fails)
    \/ \E i \in BackupIds : RestoreFromBackup(i)
    \/ \E i \in RestoreIds : RestoreTaskStart(i)
    \/ \E i \in RestoreIds : RestoreTaskComplete(i)

BackupSpec == BackupInit /\ [][BackupNext]_vars

BackupTypeOK ==
    /\ backup_jobs \subseteq BackupIds
    /\ restore_jobs \subseteq RestoreIds
    /\ files \subseteq BackupPaths
    /\ \A i \in BackupIds :
          backup_objects[i].status
              \in {"NONE", "PENDING", "RUNNING", "COMPLETED", "FAILED"}

\* C16: create_backup stores the job PENDING and returns it without waiting
\* for the backup to run; a failure of the background task is never raised
\* to the caller, it shows only on the stored job, FAILED with an error
\* message.
C16_CreateReturnsPendingJob ==
    /\ (backup_call.op = "create" /\ backup_settings # "disabled") =>
          /\ backup_call.ok
          /\ backup_call.error = ""
          /\ backup_objects[backup_call.id].status # "NONE"
          /\ backup_tasks[backup_call.id].pc = "scheduled" =>
                /\ backup_call.id \in backup_jobs
                /\ backup_objects[backup_call.id].status = "PENDING"
    /\ \A i \in BackupIds :
          (backup_tasks[i].pc = "returned"
           /\ backup_objects[i].status \notin {"COMPLETED", "PENDING"}) =>
              /\ backup_objects[i].status = "FAILED"
              /\ backup_objects[i].error_message # ""
              /\ i \in backup_jobs

\* C17: restore_from_backup is rejected with HTTP 400 unless the source
\* backup exists, is COMPLETED and has a file path; a rejected request makes
\* no restore job and starts no background task.
C17_RestoreNeedsCompletedBackup ==
    [][(backup_call' # backup_call /\ backup_call'.op = "restore"
        /\ backup_settings # "disabled") =>
          IF RestoreAllowed(backup_call'.id)
          THEN backup_call'.ok
          ELSE /\ backup_call'.status = 400
               /\ UNCHANGED restoreTaskVars]_vars

JobStatusStep(old, new) ==
    \/ new.status = old.status
    \/ old.status = "NONE" /\ new.status = "PENDING"
    \/ old.status = "PENDING" /\ new.status = "RUNNING"
    \/ old.status = "RUNNING" /\ new.status \in {"COMPLETED", "FAILED"}
    \/ /\ old.status = "PENDING"
       /\ new.status = "FAILED"
       /\ ~old.started_at_set
       /\ new.started_at_set

\* C25: every backup job and every restore job moves only from PENDING to
\* RUNNING and from RUNNING to COMPLETED or FAILED, never backwards and
\* never out of COMPLETED or FAILED; in every reachable state a COMPLETED
\* backup job has a file_path, a FAILED job has an error_message, and a job
\* in COMPLETED or FAILED has completed_at set.
C25_JobStatusOnlyForward ==
    /\ [](/\ \A i \in BackupIds :
               LET job == backup_objects[i] IN
                 /\ job.status = "COMPLETED" => job.file_path # NoPath
                 /\ job.status = "FAILED" => job.error_message # ""
                 /\ job.status \in {"COMPLETED", "FAILED"} =>
                        job.completed_at_set
          /\ \A i \in RestoreIds :
               LET job == restore_objects[i] IN
                 /\ job.status = "FAILED" => job.error_message # ""
                 /\ job.status \in {"COMPLETED", "FAILED"} =>
                        job.completed_at_set)
    /\ [][/\ \A i \in BackupIds :
               JobStatusStep(backup_objects[i], backup_objects'[i])
          /\ \A i \in RestoreIds :
               JobStatusStep(restore_objects[i], restore_objects'[i])]_vars

\* a COMPLETED backup, a FAILED backup, and a restore job that failed
\* because the file of its backup was deleted before the restore ran
C25_Witness ==
    /\ backup_objects[1].status = "COMPLETED"
    /\ backup_objects[1].file_path # NoPath
    /\ backup_objects[2].status = "FAILED"
    /\ backup_objects[2].completed_at_set
    /\ restore_objects[1].status = "FAILED"
    /\ restore_objects[1].error_message = "FileNotFoundError"
    /\ restore_objects[1].completed_at_set

\* --------------------------------------- scheduler (services/scheduler.py)
\* scheduler.py imports asyncio, time, datetime, typing and uuid4, and no
\* random: evaluating random.uniform(...) raises NameError
RandomImported == TRUE

RandomDefined == FALSE

\* schedules of a new job: next_run_time is None for a run_once_at in the
\* past, set otherwise
ScheduleKinds == {"once_past", "once_future", "interval", "cron"}

\* _calculate_next_run: None for a run_once_at that is not in the future,
\* run_once_at for one in the future, a time after now for an interval or
\* a cron expression
CalculateNextRun(kind, now) ==
    IF kind = "once_past" THEN NoTime
    ELSE IF kind = "once_future" THEN "run_once_at"
    ELSE now

\* the retries a new Job starts with: its max_retries
RetriesLeftOfNewJob(max_retries) == max_retries

NextSchedId ==
    Cardinality({i \in SchedIds : sched_objects[i].status # "NONE"}) + 1

SchedCall(op, id, found, ok, err, listed) ==
    [op |-> op, id |-> id, found |-> found, ok |-> ok, error |-> err,
     listed |-> listed,
     update |-> [task_name |-> Unset, schedule |-> Unset]]

\* schedule_job
ScheduleJob(kind, task_name, max_retries) ==
    /\ pc = "platform"
    /\ NextSchedId \in SchedIds
    /\ LET job_id == NextSchedId IN
       /\ sched_objects' = [sched_objects EXCEPT ![job_id] =
              [status |-> "PENDING", last_run_set |-> FALSE,
               next_run_time |-> CalculateNextRun(kind, "schedule_job"),
               schedule |-> kind, task_name |-> task_name,
               retries_left |-> RetriesLeftOfNewJob(max_retries),
               updated_at |-> "schedule_job"]]
       /\ sched_jobs' = sched_jobs \cup {job_id}
       /\ sched_call' = SchedCall("schedule", job_id, TRUE, TRUE, "", {})
    /\ UNCHANGED <<frameSched, trigger_pc, scheduler_loop, sched_deleted>>

\* get_job: self._jobs.get(job_id)
GetJob(job_id) ==
    /\ pc = "platform"
    /\ sched_call' = SchedCall("get", job_id, job_id \in sched_jobs,
                               job_id \in sched_jobs, "", {})
    /\ UNCHANGED <<frameSched, sched_objects, sched_jobs, trigger_pc,
                   scheduler_loop, sched_deleted>>

\* list_jobs without filter
ListJobs ==
    /\ pc = "platform"
    /\ sched_call' = SchedCall("list", 0, FALSE, TRUE, "", sched_jobs)
    /\ UNCHANGED <<frameSched, sched_objects, sched_jobs, trigger_pc,
                   scheduler_loop, sched_deleted>>

\* the updates a caller may send: each field set or left unset
JobUpdates == [task_name : {"cleanup", Unset},
               schedule : {"once_past", "interval", Unset}]

\* job.schedule after setattr(job, "schedule", value): the schedule sent
AssignedSchedule(kind) == kind

\* the job after update_job's recomputation of next_run_time whatever the
\* update holds
JobUpdatedAlwaysRecomputing(job, update) ==
    [job EXCEPT
        !.task_name = IF update.task_name = Unset THEN @
                      ELSE update.task_name,
        !.schedule = IF update.schedule = Unset THEN @
                     ELSE AssignedSchedule(update.schedule),
        !.next_run_time = CalculateNextRun(
            IF update.schedule = Unset THEN job.schedule
            ELSE AssignedSchedule(update.schedule), "update_job"),
        !.updated_at = "update_job"]

\* the job after update_job's setattr loop, its recomputation of
\* next_run_time and its stamp
JobUpdated(job, update) ==
    LET assigned == [job EXCEPT
            !.task_name = IF update.task_name = Unset THEN @
                          ELSE update.task_name,
            !.schedule = IF update.schedule = Unset THEN @
                         ELSE AssignedSchedule(update.schedule)]
    IN  [assigned EXCEPT
            !.next_run_time =
                IF update.schedule # Unset
                THEN CalculateNextRun(assigned.schedule, "update_job")
                ELSE @,
            !.updated_at = "update_job"]

\* update_job
UpdateJob(job_id, update) ==
    /\ pc = "platform"
    /\ IF job_id \in sched_jobs
       THEN /\ sched_objects' = [sched_objects EXCEPT
                  ![job_id] = JobUpdated(sched_objects[job_id], update)]
            /\ sched_call' = [SchedCall("update", job_id, TRUE, TRUE, "",
                                        {}) EXCEPT !.update = update]
       ELSE /\ sched_call' = [SchedCall("update", job_id, FALSE, FALSE, "",
                                        {}) EXCEPT !.update = update]
            /\ UNCHANGED sched_objects
    /\ UNCHANGED <<frameSched, sched_jobs, trigger_pc, scheduler_loop,
                   sched_deleted>>

\* del self._jobs[job_id]
JobRemoved(jobs, job_id) == jobs \ {job_id}

\* delete_job
DeleteJob(job_id) ==
    /\ pc = "platform"
    /\ IF job_id \in sched_jobs
       THEN /\ sched_jobs' = JobRemoved(sched_jobs, job_id)
            /\ sched_deleted' = sched_deleted \cup {job_id}
            /\ sched_call' = SchedCall("delete", job_id, TRUE, TRUE, "", {})
       ELSE /\ sched_call' = SchedCall("delete", job_id, FALSE, FALSE, "", {})
            /\ UNCHANGED <<sched_jobs, sched_deleted>>
    /\ UNCHANGED <<frameSched, sched_objects, trigger_pc, scheduler_loop>>

\* trigger_job, one step of it: from the call to its return, its exception
\* or its suspension in asyncio.sleep, and from the suspension to its return
TriggerJob(job_id) ==
    /\ pc = "platform"
    /\ IF trigger_pc[job_id] = "sleeping"
       THEN /\ sched_objects' = [sched_objects EXCEPT
                                    ![job_id].status = "COMPLETED"]
            /\ sched_jobs' = sched_jobs \cup {job_id}
            /\ trigger_pc' = [trigger_pc EXCEPT ![job_id] = "idle"]
            /\ sched_call' = SchedCall("trigger", job_id, TRUE, TRUE, "", {})
       ELSE IF job_id \notin sched_jobs
       THEN /\ sched_call' = SchedCall("trigger", job_id, FALSE, FALSE, "",
                                       {})
            /\ UNCHANGED <<sched_objects, sched_jobs, trigger_pc>>
       ELSE /\ sched_objects' = [sched_objects EXCEPT
                                    ![job_id].status = "RUNNING",
                                    ![job_id].last_run_set = TRUE]
            /\ UNCHANGED sched_jobs
            /\ IF RandomDefined
               THEN /\ trigger_pc' = [trigger_pc EXCEPT
                                         ![job_id] = "sleeping"]
                    /\ sched_call' = SchedCall("trigger", job_id, TRUE,
                                               FALSE, "", {})
               ELSE /\ UNCHANGED trigger_pc
                    /\ sched_call' = SchedCall("trigger", job_id, TRUE,
                                               FALSE, "NameError", {})
    /\ UNCHANGED <<frameSched, scheduler_loop, sched_deleted>>

\* _run_scheduler is started (nothing in the package does so; a caller may)
StartScheduler ==
    /\ pc = "platform"
    /\ scheduler_loop.pc = "stopped"
    /\ scheduler_loop' = [pc |-> "running", job |-> 0]
    /\ UNCHANGED <<frameSched, sched_objects, sched_jobs, trigger_pc,
                   sched_call, sched_deleted>>

\* the job after its simulated run: the outcome, then the rescheduling of
\* a completed recurring job or of a failed job with retries left
PassOutcome(job, success) ==
    LET retries == IF success THEN job.retries_left
                   ELSE IF job.retries_left > 0 THEN job.retries_left - 1
                   ELSE 0
        again == IF success THEN job.schedule \in {"interval", "cron"}
                 ELSE retries > 0
    IN  [job EXCEPT
            !.status = IF again THEN "PENDING"
                       ELSE IF success THEN "COMPLETED" ELSE "FAILED",
            !.retries_left = retries,
            !.next_run_time =
                IF ~again THEN NoTime
                ELSE IF success
                THEN CalculateNextRun(job.schedule, "_run_scheduler")
                ELSE "_run_scheduler",
            !.updated_at = "_run_scheduler"]

\* _run_scheduler, one step of a pass: a stored PENDING job whose
\* next_run_time has come (any next_run_time comes as time passes) is set
\* RUNNING, up to the loop's suspension in
\* asyncio.sleep or its exception; and from the suspension to the store of
\* the job's outcome
SchedulerPass(job_id, success) ==
    /\ pc = "platform"
    /\ IF scheduler_loop.pc = "sleeping"
       THEN /\ job_id = scheduler_loop.job
            /\ sched_objects' = [sched_objects EXCEPT
                  ![job_id] = PassOutcome(sched_objects[job_id], success)]
            /\ sched_jobs' = sched_jobs \cup {job_id}
            /\ scheduler_loop' = [pc |-> "running", job |-> 0]
       ELSE /\ scheduler_loop.pc = "running"
            /\ success
            /\ job_id \in sched_jobs
            /\ sched_objects[job_id].status = "PENDING"
            /\ sched_objects[job_id].next_run_time # NoTime
            /\ sched_objects' = [sched_objects EXCEPT
                                    ![job_id].status = "RUNNING",
                                    ![job_id].last_run_set = TRUE]
            /\ UNCHANGED sched_jobs
            /\ scheduler_loop' = IF RandomDefined
                                 THEN [pc |-> "sleeping", job |-> job_id]
                                 ELSE [pc |-> "crashed", job |-> job_id]
    /\ UNCHANGED <<frameSched, trigger_pc, sched_call, sched_deleted>>

SchedInit ==
    /\ SearchAtRest
    /\ PlatformInit

SchedNext ==
    \/ \E k \in ScheduleKinds, t \in {"reindex"}, r \in {1} :
           ScheduleJob(k, t, r)
    \/ \E i \in SchedIds : GetJob(i)
    \/ ListJobs
    \/ \E i \in SchedIds, u \in JobUpdates : UpdateJob(i, u)
    \/ \E i \in SchedIds : DeleteJob(i)
    \/ \E i \in SchedIds : TriggerJob(i)
    \/ StartScheduler
    \/ \E i \in SchedIds, success \in BOOLEAN : SchedulerPass(i, success)

SchedSpec == SchedInit /\ [][SchedNext]_vars

\* C19: delete_job(id) returns True exactly when the job was in the store;
\* from then on the job is not in the store, get_job(id) returns None and
\* list_jobs does not contain it, whatever trigger_job or the scheduler
\* loop do with the job.
C19_DeletedJobStaysGone ==
    /\ [](/\ \A i \in sched_deleted : i \notin sched_jobs
          /\ (sched_call.op = "get" /\ sched_call.id \in sched_deleted)
                 => ~sched_call.found
          /\ sched_call.op = "list"
                 => sched_call.listed \cap sched_deleted = {})
    /\ [][(sched_call' # sched_call /\ sched_call'.op = "delete") =>
             /\ sched_call'.ok = (sched_call'.id \in sched_jobs)
             /\ sched_call'.ok => sched_call'.id \notin sched_jobs']_vars

\* a job deleted after it was triggered and after the scheduler loop was
\* started, looked up afterwards
C19_Witness ==
    /\ 1 \in sched_deleted
    /\ sched_objects[1].status = "RUNNING"
    /\ scheduler_loop.pc # "stopped"
    /\ sched_call.op = "get"
    /\ sched_call.id = 1
    /\ ~sched_call.found
    /\ 2 \in sched_jobs

\* C20: trigger_job on an existing job sets it RUNNING with last_run_time
\* set and ends with the job COMPLETED and True returned: once trigger_job
\* is over, normally or with an error, the job is not RUNNING; on an unknown
\* id it returns False and changes nothing.
C20_TriggerEndsCompleted ==
    (sched_call.op = "trigger" /\ trigger_pc[sched_call.id] = "idle") =>
        IF sched_call.found
        THEN /\ sched_call.ok
             /\ sched_call.error = ""
             /\ sched_objects[sched_call.id].last_run_set
             /\ sched_objects[sched_call.id].status # "RUNNING"
        ELSE ~sched_call.ok

\* C21: a scheduler pass runs only jobs that are PENDING and whose
\* next_run_time has been reached; once the pass is done with a job, normally
\* or with an error, a completed recurring job and a failed job with retries
\* left are PENDING again with a next_run_time, every other job is COMPLETED
\* or FAILED with next_run_time cleared; retries_left drops by one per
\* failure and never goes below 0.
C21_PassReschedulesOrFinishes ==
    [][\A i \in SchedIds :
          LET old == sched_objects[i]
              new == sched_objects'[i]
              started == scheduler_loop.pc = "running"
                         /\ scheduler_loop'.pc # "running"
                         /\ scheduler_loop'.job = i
              ended == \/ /\ scheduler_loop'.job = i
                          /\ scheduler_loop'.pc \notin {"running", "sleeping"}
                       \/ /\ scheduler_loop.pc = "sleeping"
                          /\ scheduler_loop.job = i
                          /\ scheduler_loop'.pc # "sleeping"
          IN  /\ started =>
                    (old.status = "PENDING" /\ old.next_run_time # NoTime)
              /\ (scheduler_loop' # scheduler_loop /\ ended) =>
                    /\ \/ new.status = "PENDING" /\ new.next_run_time # NoTime
                       \/ /\ new.status = "COMPLETED"
                          /\ new.schedule \notin {"interval", "cron"}
                          /\ new.next_run_time = NoTime
                       \/ /\ new.status = "FAILED"
                          /\ new.retries_left = 0
                          /\ new.next_run_time = NoTime
                    /\ new.retries_left \in {old.retries_left,
                                             old.retries_left - 1}
                    /\ new.retries_left >= 0]_vars

AsyncioDefined == FALSE

\* the settings object: the one of config/settings.py, which declares no
\* VERSION, and one that declares it
NotifSettings == {"shipped", "versioned"}

\* recipients, as the pieces of the string
Recipients == {<<"ops", "@", "example.com">>, <<"ops">>,
               <<"https://", "hooks.example.com">>,
               <<"http://", "hooks.example.com">>,
               <<"hooks.example.com", "https://">>,
               <<"https://", "ops", "@", "example.com">>}

\* "@" in recipient
ContainsAt(recipient) == \E i \in 1..Len(recipient) : recipient[i] = "@"

\* recipient.startswith(prefix)
StartsWith(recipient, prefix) == Len(recipient) > 0 /\ recipient[1] = prefix

Outcome(status, error_message) ==
    [status |-> status, error_message |-> error_message]

\* the branches of the try block once the simulated latency is over
ChannelOutcome(channel, recipient) ==
    IF channel = "email"
    THEN IF ContainsAt(recipient) THEN Outcome("SENT", "")
         ELSE Outcome("FAILED", "Invalid recipient format for email.")
    ELSE IF channel = "webhook"
    THEN IF StartsWith(recipient, "http://")
            \/ StartsWith(recipient, "https://")
         THEN Outcome("SENT", "")
         ELSE Outcome("FAILED",
                      "Invalid recipient format for webhook (must be URL).")
    ELSE IF channel = "slack"
    THEN Outcome("SENT", "")
    ELSE Outcome("FAILED", "Unsupported notification channel")

\* status and error_message at the end of the try block: the three known
\* channels evaluate asyncio.sleep first, and except Exception turns its
\* NameError into FAILED
SendOutcome(channel, recipient) ==
    IF channel \in {"email", "webhook", "slack"} /\ ~AsyncioDefined
    THEN Outcome("FAILED",
                 "Internal server error: name 'asyncio' is not defined")
    ELSE ChannelOutcome(channel, recipient)

NotifCall(channel, recipient, raised, status, error_message) ==
    [op |-> "send", channel |-> channel, recipient |-> recipient,
     raised |-> raised, status |-> status, error_message |-> error_message]

\* send_notification: the try block, then the result is built, which reads
\* settings.VERSION, then it is appended to the history and returned
SendNotification(channel, recipient) ==
    /\ pc = "platform"
    /\ Len(sent_notifications) < MaxNotifications
    /\ LET out == SendOutcome(channel, recipient) IN
       IF notif_settings = "shipped"
       THEN /\ notif_call' = NotifCall(channel, recipient, "AttributeError",
                                       "", "")
            /\ UNCHANGED sent_notifications
       ELSE /\ sent_notifications' = Append(sent_notifications,
                  [channel |-> channel, recipient |-> recipient,
                   status |-> out.status,
                   error_message |-> out.error_message])
            /\ notif_call' = NotifCall(channel, recipient, "", out.status,
                                       out.error_message)
    /\ UNCHANGED <<frameNotif, notif_settings>>

NotifInit ==
    /\ SearchAtRest
    /\ api_log = <<>>
    /\ personalization_enabled = TRUE
    /\ user_profiles = [u \in {} |-> NoProfile]
    /\ pers_call = NoPersCall
    /\ calls = [i \in CallIds |-> NoCall]
    /\ BackupAtRest
    /\ SchedAtRest
    /\ notif_settings \in NotifSettings
    /\ sent_notifications = <<>>
    /\ notif_call = NoNotifCall
    /\ VectorAtRest

\* the three channels send_notification knows and one it does not
NotifNext ==
    \E c \in {"email", "webhook", "slack", "sms"}, r \in Recipients :
        SendNotification(c, r)

NotifSpec == NotifInit /\ [][NotifNext]_vars

\* C23: send_notification returns a result whose status is SENT for an email
\* recipient containing "@", for a webhook recipient starting with http://
\* or https:// and for any Slack recipient, and FAILED with an error message
\* in every other case, never PENDING; and every call appends exactly one
\* result to the history.
C23_SendStatusAndHistory ==
    /\ [](notif_call.op = "send" =>
            LET c == notif_call.channel
                r == notif_call.recipient
                sent == \/ c = "email" /\ (\E i \in 1..Len(r) : r[i] = "@")
                        \/ c = "webhook" /\ r[1] \in {"http://", "https://"}
                        \/ c = "slack"
            IN  /\ notif_call.raised = ""
                /\ notif_call.status = IF sent THEN "SENT" ELSE "FAILED"
                /\ notif_call.status = "FAILED" =>
                       notif_call.error_message # "")
    /\ [][(notif_call' # notif_call /\ notif_call'.op = "send") =>
             /\ Len(sent_notifications') = Len(sent_notifications) + 1
             /\ sent_notifications'[Len(sent_notifications')].status =
                    notif_call'.status]_vars

\* ------------------------------------------ vectors (services/vector.py)
\* the sample collections list_collections makes when there is none
SampleCollections ==
    [c \in {"documents", "images", "science_articles"} |->
        IF c = "documents" THEN [dimension |-> 384, vector_count |-> 1250]
        ELSE IF c = "images" THEN [dimension |-> 512, vector_count |-> 850]
        ELSE [dimension |-> 384, vector_count |-> 450]]

\* self._collections[name] = info
WithCollection(colls, name, info) ==
    [c \in DOMAIN colls \cup {name} |-> IF c = name THEN info ELSE colls[c]]

\* the dimension of a collection made by upsert_vectors; the vectors of a
\* request's records are kept by their length, 0 for a record without a
\* vector or with an empty one
NewDimension(req_vectors) ==
    IF Len(req_vectors) > 0 /\ req_vectors[1] > 0 THEN req_vectors[1]
    ELSE DefaultDimension

\* collection_info["vector_count"] = len(request.vectors)
VectorCountReplaced(vector_count, req_vectors) == Len(req_vectors)

\* collection_info["vector_count"] += len(request.vectors)
VectorCountAfter(vector_count, req_vectors) ==
    vector_count + Len(req_vectors)

VecCall(op, collection, create, sent, ok, err, inserted, updated) ==
    [op |-> op, n |-> upserts_done', collection |-> collection,
     create_collection |-> create, sent |-> sent, ok |-> ok,
     error |-> err, inserted_count |-> inserted, updated_count |-> updated]

\* upsert_vectors
UpsertVectors(collection, req_vectors, create_collection) ==
    /\ pc = "platform"
    /\ upserts_done < MaxUpserts
    /\ upserts_done' = upserts_done + 1
    /\ IF collection \notin DOMAIN collections /\ ~create_collection
       THEN /\ vec_call' = VecCall("upsert", collection, create_collection,
                                   Len(req_vectors), FALSE, "ValueError",
                                   0, 0)
            /\ UNCHANGED collections
       ELSE LET present ==
                    IF collection \in DOMAIN collections THEN collections
                    ELSE WithCollection(collections, collection,
                            [dimension |-> NewDimension(req_vectors),
                             vector_count |-> 0])
                inserted_count == Len(req_vectors) \div 2
                updated_count == Len(req_vectors) - inserted_count
            IN  /\ collections' = [present EXCEPT
                       ![collection].vector_count =
                           VectorCountAfter(@, req_vectors)]
                /\ vec_call' = VecCall("upsert", collection,
                                       create_collection, Len(req_vectors),
                                       TRUE, "", inserted_count,
                                       updated_count)
    /\ UNCHANGED frameVector

\* vector_search with a vector for its query: a collection that does not
\* exist is made, with a mock vector_count
VectorSearch(collection, query_length) ==
    /\ pc = "platform"
    /\ collections' =
           IF collection \in DOMAIN collections THEN collections
           ELSE WithCollection(collections, collection,
                   [dimension |-> query_length,
                    vector_count |-> MockVectorCount])
    /\ UNCHANGED <<frameVector, upserts_done>>
    /\ vec_call' = VecCall("search", collection, FALSE, 0, TRUE, "", 0, 0)

\* list_collections: makes the sample collections when there is none
ListCollections ==
    /\ pc = "platform"
    /\ collections' = IF DOMAIN collections = {} THEN SampleCollections
                      ELSE collections
    /\ UNCHANGED <<frameVector, upserts_done>>
    /\ vec_call' = VecCall("list", "", FALSE, 0, TRUE, "", 0, 0)

VectorInit ==
    /\ SearchAtRest
    /\ PlatformInit

VectorNext ==
    \/ \E c \in {"documents", "notes"}, v \in SeqsUpTo({0, 2}, MaxVectors),
          create \in BOOLEAN :
           UpsertVectors(c, v, create)
    \/ \E c \in {"documents", "notes"}, q \in {2} : VectorSearch(c, q)
    \/ ListCollections

VectorSpec == VectorInit /\ [][VectorNext]_vars

\* C24: upsert_vectors to a collection that does not exist with
\* create_collection False fails with an error and leaves the collection
\* store unchanged; in every other case the collection's vector_count grows
\* by exactly the number of vectors sent (from 0 for a collection the call
\* makes), no other collection changes, and inserted_count + updated_count
\* is that number.
C24_UpsertCountsOrFails ==
    [][(vec_call' # vec_call /\ vec_call'.op = "upsert") =>
          LET c == vec_call'.collection
              known == c \in DOMAIN collections
              before == IF known THEN collections[c].vector_count ELSE 0
          IN  IF ~known /\ ~vec_call'.create_collection
              THEN /\ ~vec_call'.ok
                   /\ vec_call'.error # ""
                   /\ collections' = collections
              ELSE /\ vec_call'.ok
                   /\ DOMAIN collections' = DOMAIN collections \cup {c}
                   /\ collections'[c].vector_count = before + vec_call'.sent
                   /\ \A d \in DOMAIN collections \ {c} :
                         collections'[d] = collections[d]
                   /\ vec_call'.inserted_count + vec_call'.updated_count =
                          vec_call'.sent]_vars

\* two vectors upserted without create_collection into the sample collection
\* "documents", by the second upsert call, while "notes" was never made
C24_Witness ==
    /\ vec_call.op = "upsert"
    /\ vec_call.n = 2
    /\ vec_call.ok
    /\ vec_call.collection = "documents"
    /\ ~vec_call.create_collection
    /\ vec_call.sent = 2
    /\ vec_call.inserted_count = 1
    /\ vec_call.updated_count = 1
    /\ collections["documents"].vector_count = 1252
    /\ "notes" \notin DOMAIN collections

====
